---- MODULE Spec2Model ----
(***************************************************************************)
(* Redux store of the mural front end: the web3 (wallet session) slice and *)
(* its three async thunks, the snackbar (notification) slice and the       *)
(* murals slice.  Reducers are operators on a slice state; every action of *)
(* the model is one dispatch to the store or one resumption of a thunk     *)
(* after an awaited provider call.                                         *)
(***************************************************************************)
EXTENDS Integers, Sequences, FiniteSets, TLC

\* ------------------------------------------------------------------ bounds
MaxCalls == 2        \* thunk calls dispatched in one behaviour
MaxTime == 1         \* largest value of the clock read by handleWalletActions
MaxEnqueues == 2     \* notifications the UI enqueues directly in one behaviour
MaxMurals == 2       \* longest mural collection built by createMural / getMurals

\* ------------------------------------------------------------ value spaces
Null == "null"                  \* the JavaScript null of string | null fields
None == <<>>                    \* an optional field that is absent (undefined)
Some(x) == <<x>>                \* an optional field that is present

Addresses == {"0xA1", "0xA2"}
Mainnet == "0x1"
Chains == {"0x1", "0x539"}      \* mainnet and a chain the application does not support
Router == "router"

Error(message) == [truthy |-> TRUE, message |-> message]
FalsyError == [truthy |-> FALSE, message |-> "undefined"]
NoError == [truthy |-> FALSE, message |-> "none"]
\* what an awaited provider call or profile lookup may throw
ThrownValues == {Error("provider error"), FalsyError}
\* reading ethereum.chainId when window.ethereum is undefined
TypeErrorChainId == Error("Cannot read properties of undefined")

\* utils/network: chain identifier -> network descriptor
selectNetwork(chainId) ==
    IF chainId = "0x1" THEN [name |-> "Ethereum Mainnet", isSupported |-> TRUE]
    ELSE IF chainId = "0x4" THEN [name |-> "Rinkeby Testnet", isSupported |-> TRUE]
    ELSE [name |-> "Unsupported Network", isSupported |-> FALSE]

\* utils/network: getAccounts(address) resolves to the address with its ENS
\* name and avatar, which are best effort: null for an address that has none
ensOf(address) == IF address = "0xA1" THEN "a1.eth" ELSE Null
avatarOf(address) == IF address = "0xA1" THEN "a1.png" ELSE Null

getAccounts(address) ==
    { [address |-> address, ens |-> ensOf(address), avatar |-> avatarOf(address)] }

\* utils/network: the account lists requestAccounts() can resolve to
requestAccounts == {<<>>} \cup { <<a>> : a \in Addresses }

\* ---------------------------------------------------------------- web3 slice
web3InitialData ==
    [address |-> Null, ens |-> Null, avatar |-> Null,
     chainId |-> None, network |-> None, router |-> None]

web3InitialState ==
    [data |-> web3InitialData, loading |-> FALSE, error |-> None,
     isMetamask |-> FALSE, isConnected |-> None]

\* disconnectWallet as it would be if it only cleared the flag
disconnectWalletKeepsData(state) == [state EXCEPT !.isConnected = Some(FALSE)]

disconnectWallet(state) ==
    [state EXCEPT !.data = web3InitialData, !.isConnected = Some(FALSE)]

\* connectWallet.fulfilled as it would be if a session that already has an
\* address kept its data (the first response to resolve wins)
connectWalletFulfilledFirstWins(state, payload) ==
    IF state.data.address # Null
    THEN [state EXCEPT !.loading = FALSE, !.error = None]
    ELSE [state EXCEPT
             !.loading = FALSE,
             !.data = [address |-> payload.address, ens |-> payload.ens,
                       avatar |-> payload.avatar, chainId |-> None,
                       network |-> Some(payload.network), router |-> Some(payload.router)],
             !.error = None,
             !.isConnected = IF payload.address # Null THEN Some(TRUE) ELSE @]

\* connectWallet.fulfilled as it would be if it left the loading flag alone
connectWalletFulfilledKeepsLoading(state, payload) ==
    [state EXCEPT
        !.data = [address |-> payload.address, ens |-> payload.ens,
                  avatar |-> payload.avatar, chainId |-> None,
                  network |-> Some(payload.network), router |-> Some(payload.router)],
        !.error = None,
        !.isConnected = IF payload.address # Null THEN Some(TRUE) ELSE @]

connectWalletFulfilled(state, payload) ==
    [state EXCEPT
        !.loading = FALSE,
        !.data = [address |-> payload.address, ens |-> payload.ens,
                  avatar |-> payload.avatar, chainId |-> None,
                  network |-> Some(payload.network), router |-> Some(payload.router)],
        !.error = None,
        !.isConnected = IF payload.address # Null THEN Some(TRUE) ELSE @]

changeAccountFulfilled(state, payload) ==
    [state EXCEPT !.data.ens = payload.ens,
                  !.data.avatar = payload.avatar,
                  !.data.address = payload.address]

\* changeNetwork.fulfilled as it would be if it forgot the network descriptor
changeNetworkFulfilledKeepsNetwork(state, payload) ==
    [state EXCEPT !.data.ens = payload.ens,
                  !.data.avatar = payload.avatar,
                  !.data.chainId = Some(payload.chainId)]

changeNetworkFulfilled(state, payload) ==
    [state EXCEPT !.data.ens = payload.ens,
                  !.data.avatar = payload.avatar,
                  !.data.chainId = Some(payload.chainId),
                  !.data.network = Some(payload.network)]

pendingMatcher(state) == [state EXCEPT !.loading = TRUE]

\* the rejected matcher as it would be if it swallowed every error
rejectedMatcherSwallows(state, payload) == state

rejectedMatcher(state, payload) ==
    IF ~payload.truthy THEN state
    ELSE [state EXCEPT !.loading = FALSE, !.error = Some(payload.message)]

\* ------------------------------------------------------------ snackbar slice
AutoHideDuration == 6000

snackbarInitialState ==
    [message |-> "", open |-> FALSE, snackPack |-> <<>>, key |-> None,
     autoHideDuration |-> AutoHideDuration, severity |-> "info"]

\* time is the value of new Date().getTime() when the reducer runs
handleWalletActions(state, message, time) ==
    [state EXCEPT !.autoHideDuration = AutoHideDuration,
                  !.message = message,
                  !.snackPack = << [key |-> time] >>]

walletConnected(state, time) == handleWalletActions(state, "Wallet connected", time)

walletDisconnected(state, time) == handleWalletActions(state, "Wallet disconnected", time)

\* closeSnackbar as it would be if dismissing also dropped the queued entries
closeSnackbarClearsQueue(state) == [state EXCEPT !.open = FALSE, !.snackPack = <<>>]

closeSnackbar(state) == [state EXCEPT !.open = FALSE]

\* state.snackPack[0].key throws a TypeError on an empty snackPack before
\* anything is assigned, so the reducer leaves the state as it was
setSnackPackThrows(state) == Len(state.snackPack) = 0

\* setSnackPack as it would be if it opened the snackbar on an empty queue
\* (reading the head's key with optional chaining)
setSnackPackOnEmptyOpens(state) ==
    IF Len(state.snackPack) = 0 THEN [state EXCEPT !.key = None, !.open = TRUE]
    ELSE [state EXCEPT !.key = Some(state.snackPack[1].key),
                       !.snackPack = Tail(state.snackPack),
                       !.open = TRUE]

setSnackPack(state) ==
    IF setSnackPackThrows(state) THEN state
    ELSE [state EXCEPT !.key = Some(state.snackPack[1].key),
                       !.snackPack = Tail(state.snackPack),
                       !.open = TRUE]

exited(state) == [state EXCEPT !.key = None]

\* the slice reducer as it would be if it answered web3/disconnectWallet with
\* a "Wallet disconnected" notification
snackbarReducerDisconnectNotifies(state, type, time) ==
    CASE type = "snackbar/walletConnected" -> walletConnected(state, time)
      [] type \in {"snackbar/walletDisconnected", "web3/disconnectWallet"} ->
             walletDisconnected(state, time)
      [] type = "snackbar/closeSnackbar" -> closeSnackbar(state)
      [] type = "snackbar/setSnackPack" -> setSnackPack(state)
      [] type = "snackbar/exited" -> exited(state)
      [] OTHER -> state

\* the slice reducer createSlice builds: an action type with no case reducer
\* in the slice leaves the slice state as it is
snackbarReducer(state, type, time) ==
    CASE type = "snackbar/walletConnected" -> walletConnected(state, time)
      [] type = "snackbar/walletDisconnected" -> walletDisconnected(state, time)
      [] type = "snackbar/closeSnackbar" -> closeSnackbar(state)
      [] type = "snackbar/setSnackPack" -> setSnackPack(state)
      [] type = "snackbar/exited" -> exited(state)
      [] OTHER -> state

\* -------------------------------------------------------------- murals slice
MuralIds == {"muralA", "muralB"}
\* a mural with its one plot, complete or not
Murals == { [id |-> i, plots |-> << [id |-> 1, isComplete |-> b] >>] :
            i \in MuralIds, b \in BOOLEAN }

muralsInitialState == [murals |-> <<>>, loading |-> TRUE]

createMural(state, payload) == [state EXCEPT !.murals = Append(state.murals, payload)]

getMurals(state, payload) == [state EXCEPT !.murals = payload, !.loading = FALSE]

\* updatePlot as it would be if it patched the mural with the payload's id
updatePlotById(state, payload) ==
    [state EXCEPT !.murals = [i \in 1..Len(state.murals) |->
                                 IF state.murals[i].id = payload.mural.id
                                 THEN payload.mural ELSE state.murals[i]]]

updatePlot(state, payload) == [state EXCEPT !.murals = << payload.mural >>]

\* --------------------------------------------------------------- the thunks
NoPayload == [none |-> TRUE]

\* a thunk call: its argument, where it is suspended (pc), what it has read
\* from the provider so far (chain is ethereum.chainId as the thunk tested
\* it), the payload or error it completes with, and the number of
\* walletConnected() actions it has dispatched
NewCall(op, arg) ==
    [op |-> op, arg |-> arg, pc |-> "start", chain |-> "none",
     account |-> Null, network |-> None, payload |-> NoPayload,
     err |-> NoError, notified |-> 0]

DoneCall(op) == [NewCall(op, Null) EXCEPT !.pc = "done"]

fulfil(call, payload) == [call EXCEPT !.pc = "fulfilled", !.payload = payload]

\* catch (e) { return rejectWithValue(e) }
rejectWithValue(call, e) == [call EXCEPT !.pc = "rejected", !.err = e]

\* connectWallet as it would be without its check for window.ethereum
connectWalletBeginNoProviderCheck(call, eth) == [call EXCEPT !.pc = "requestAccounts"]

\* connectWallet up to its first await
connectWalletBegin(call, eth) ==
    IF ~eth.present THEN rejectWithValue(call, Error("Must install metamask"))
    ELSE [call EXCEPT !.pc = "requestAccounts"]

\* connectWallet resumed with the accounts requestAccounts() resolved to
connectWalletAccounts(call, eth, accounts) ==
    IF Len(accounts) > 0
    THEN [call EXCEPT !.pc = "getAccounts", !.account = accounts[1],
                      !.network = Some(selectNetwork(eth.chainId))]
    ELSE rejectWithValue(call, Error("User denied permission"))

\* connectWallet resumed with accountData; it has dispatched walletConnected()
connectWalletAccountData(call, accountData) ==
    [fulfil(call, [address |-> accountData.address, ens |-> accountData.ens,
                   avatar |-> accountData.avatar, network |-> call.network[1],
                   router |-> call.arg])
     EXCEPT !.notified = @ + 1]

\* changeAccount as it would be if it resolved the profile on every chain
changeAccountBeginAnyChain(call, eth) ==
    IF ~eth.present
    THEN fulfil(call, [ens |-> web3InitialData.ens, avatar |-> web3InitialData.avatar,
                       address |-> web3InitialData.address])
    ELSE IF call.arg # Null
    THEN [call EXCEPT !.pc = "getAccounts", !.account = call.arg, !.chain = eth.chainId]
    ELSE fulfil([call EXCEPT !.chain = eth.chainId],
                [ens |-> Null, avatar |-> Null, address |-> call.arg])

\* changeAccount up to its first await
changeAccountBegin(call, eth) ==
    IF ~eth.present
    THEN fulfil(call, [ens |-> web3InitialData.ens, avatar |-> web3InitialData.avatar,
                       address |-> web3InitialData.address])
    ELSE IF eth.chainId = Mainnet /\ call.arg # Null
    THEN [call EXCEPT !.pc = "getAccounts", !.account = call.arg, !.chain = eth.chainId]
    ELSE fulfil([call EXCEPT !.chain = eth.chainId],
                [ens |-> Null, avatar |-> Null, address |-> call.arg])

changeAccountAccountData(call, accountData) ==
    fulfil(call, [ens |-> accountData.ens, avatar |-> accountData.avatar,
                  address |-> call.arg])

\* changeNetwork up to its first await
changeNetworkBegin(call, eth) == [call EXCEPT !.pc = "requestAccounts"]

\* changeNetwork resumed with the accounts requestAccounts() resolved to
changeNetworkAccounts(call, eth, accounts) ==
    IF ~eth.present THEN rejectWithValue(call, TypeErrorChainId)
    ELSE IF eth.chainId = Mainnet /\ Len(accounts) > 0
    THEN [call EXCEPT !.pc = "getAccounts", !.account = accounts[1],
                      !.chain = eth.chainId]
    ELSE fulfil([call EXCEPT !.chain = eth.chainId],
                [network |-> selectNetwork(call.arg), ens |-> Null,
                 avatar |-> Null, chainId |-> call.arg])

changeNetworkAccountData(call, accountData) ==
    fulfil(call, [network |-> selectNetwork(call.arg), ens |-> accountData.ens,
                  avatar |-> accountData.avatar, chainId |-> call.arg])

\* ------------------------------------------------------------------- state
VARIABLES
    web3,       \* state.web3
    snackbar,   \* state.snackbar
    murals,     \* state.murals
    ethereum,   \* window.ethereum: whether it is injected, and its chainId
    calls,      \* the thunk calls dispatched so far, in dispatch order
    now,        \* the clock, in milliseconds
    last,       \* the action the store applied last, with the thunk call it ends
    enqueued,   \* history: the notifications enqueued, as (key, text), in order
    dequeues    \* history: the number of setSnackPack dispatches that did not throw

vars == <<web3, snackbar, murals, ethereum, calls, now, last, enqueued, dequeues>>

NoCall == NewCall("none", Null)

\* an action the store applied: its type; for a thunk action the lifecycle
\* status, the number of the thunk call and the call as it completed; for a
\* murals action the payload; for setSnackPack whether the reducer threw
Action(type, status, id, call) ==
    [type |-> type, status |-> status, id |-> id, call |-> call,
     payload |-> NoPayload, threw |-> FALSE]

Init ==
    /\ web3 = web3InitialState
    /\ snackbar = snackbarInitialState
    /\ murals = muralsInitialState
    /\ ethereum \in {[present |-> FALSE, chainId |-> "none"]}
                    \cup { [present |-> TRUE, chainId |-> ch] : ch \in Chains }
    /\ calls = <<>>
    /\ now = 0
    /\ last = Action("@@INIT", "", 0, NoCall)
    /\ enqueued = <<>>
    /\ dequeues = 0

\* ------------------------------------------------------- wallet: dispatches
\* dispatch(thunk(arg)): the pending action is applied and the thunk body runs
\* up to its first await
DispatchThunk(op, call) ==
    /\ Len(calls) < MaxCalls
    /\ web3' = pendingMatcher(web3)
    /\ calls' = Append(calls, call)
    /\ last' = Action(op, "pending", Len(calls) + 1, NoCall)
    /\ UNCHANGED <<snackbar, murals, ethereum, now, enqueued, dequeues>>

ConnectWallet ==
    DispatchThunk("web3/connectWallet",
                  connectWalletBegin(NewCall("web3/connectWallet", Router), ethereum))

ChangeAccount ==
    \E address \in Addresses \cup {Null} :
        DispatchThunk("web3/changeAccount",
                      changeAccountBegin(NewCall("web3/changeAccount", address), ethereum))

ChangeNetwork ==
    \E chainId \in Chains :
        DispatchThunk("web3/changeNetwork",
                      changeNetworkBegin(NewCall("web3/changeNetwork", chainId), ethereum))

\* dispatch(disconnectWallet()): every slice reducer of the store sees the action
DisconnectWallet ==
    /\ web3' = disconnectWallet(web3)
    /\ snackbar' = snackbarReducer(snackbar, "web3/disconnectWallet", now)
    /\ last' = Action("web3/disconnectWallet", "", 0, NoCall)
    /\ UNCHANGED <<murals, ethereum, calls, now, enqueued, dequeues>>

\* ----------------------------- wallet: resumptions and completions of a thunk
\* a thunk body has returned and its fulfilled or rejected action is still to
\* be dispatched: that takes promise reactions only, which run before the
\* reply to any awaited provider call and before any provider event
Settling == \E c \in 1..Len(calls) : calls[c].pc \in {"fulfilled", "rejected"}

Suspended(c, op, pc) ==
    /\ ~Settling
    /\ c \in 1..Len(calls)
    /\ calls[c].op = op
    /\ calls[c].pc = pc

fulfilledReducer(state, call) ==
    IF call.op = "web3/connectWallet" THEN connectWalletFulfilled(state, call.payload)
    ELSE IF call.op = "web3/changeAccount" THEN changeAccountFulfilled(state, call.payload)
    ELSE changeNetworkFulfilled(state, call.payload)

\* what the store's web3 slice is after the thunk has run on to `call`: the
\* thunk's fulfilled or rejected action is dispatched as soon as its body returns
completed(state, call) ==
    IF call.pc = "fulfilled" THEN fulfilledReducer(state, call)
    ELSE IF call.pc = "rejected" THEN rejectedMatcher(state, call.err)
    ELSE state

\* thunk c runs from an await to its next await or to its completion
Resume(c, call) ==
    /\ web3' = completed(web3, call)
    /\ calls' = [calls EXCEPT ![c] = IF call.pc \in {"fulfilled", "rejected"}
                                     THEN DoneCall(call.op) ELSE call]
    /\ last' = IF call.pc \in {"fulfilled", "rejected"}
               THEN Action(call.op, call.pc, c, call) ELSE last
    /\ UNCHANGED <<murals, ethereum, dequeues>>

ConnectWalletAccounts(c) ==
    /\ Suspended(c, "web3/connectWallet", "requestAccounts")
    /\ \E accounts \in requestAccounts :
           Resume(c, connectWalletAccounts(calls[c], ethereum, accounts))
    /\ UNCHANGED <<snackbar, now, enqueued>>

\* accountData arrives: the thunk dispatches walletConnected() and returns
ConnectWalletAccountData(c) ==
    /\ Suspended(c, "web3/connectWallet", "getAccounts")
    /\ \E accountData \in getAccounts(calls[c].account) :
           Resume(c, connectWalletAccountData(calls[c], accountData))
    /\ snackbar' = snackbarReducer(snackbar, "snackbar/walletConnected", now)
    /\ enqueued' = Append(enqueued, [key |-> now, text |-> "Wallet connected"])
    /\ UNCHANGED now

ChangeAccountAccountData(c) ==
    /\ Suspended(c, "web3/changeAccount", "getAccounts")
    /\ \E accountData \in getAccounts(calls[c].account) :
           Resume(c, changeAccountAccountData(calls[c], accountData))
    /\ UNCHANGED <<snackbar, now, enqueued>>

ChangeNetworkAccounts(c) ==
    /\ Suspended(c, "web3/changeNetwork", "requestAccounts")
    /\ \E accounts \in requestAccounts :
           Resume(c, changeNetworkAccounts(calls[c], ethereum, accounts))
    /\ UNCHANGED <<snackbar, now, enqueued>>

ChangeNetworkAccountData(c) ==
    /\ Suspended(c, "web3/changeNetwork", "getAccounts")
    /\ \E accountData \in getAccounts(calls[c].account) :
           Resume(c, changeNetworkAccountData(calls[c], accountData))
    /\ UNCHANGED <<snackbar, now, enqueued>>

\* the awaited provider call or profile lookup throws inside the try block
AwaitThrows(c) ==
    /\ ~Settling
    /\ c \in 1..Len(calls)
    /\ calls[c].pc \in {"requestAccounts", "getAccounts"}
    /\ \E e \in ThrownValues : Resume(c, rejectWithValue(calls[c], e))
    /\ UNCHANGED <<snackbar, now, enqueued>>

\* a thunk that returned without awaiting: its fulfilled or rejected action
\* follows its pending action
Completes(c) ==
    /\ c \in 1..Len(calls)
    /\ calls[c].pc \in {"fulfilled", "rejected"}
    /\ Resume(c, calls[c])
    /\ UNCHANGED <<snackbar, now, enqueued>>

\* the user switches the wallet to another chain
ChainChanged ==
    /\ ~Settling
    /\ ethereum.present
    /\ \E ch \in Chains \ {ethereum.chainId} :
           ethereum' = [ethereum EXCEPT !.chainId = ch]
    /\ UNCHANGED <<web3, snackbar, murals, calls, now, last, enqueued, dequeues>>

\* ------------------------------------------------------ snackbar: dispatches
\* the clock advances by a millisecond
Tick ==
    /\ now < MaxTime
    /\ now' = now + 1
    /\ UNCHANGED <<web3, snackbar, murals, ethereum, calls, last, enqueued, dequeues>>

DispatchSnackbar(type) ==
    /\ snackbar' = snackbarReducer(snackbar, type, now)
    /\ last' = [Action(type, "", 0, NoCall) EXCEPT
                   !.threw = type = "snackbar/setSnackPack" /\ setSnackPackThrows(snackbar)]
    /\ UNCHANGED <<web3, murals, ethereum, calls, now>>

WalletConnected ==
    /\ Len(enqueued) < MaxEnqueues
    /\ DispatchSnackbar("snackbar/walletConnected")
    /\ enqueued' = Append(enqueued, [key |-> now, text |-> "Wallet connected"])
    /\ UNCHANGED dequeues

WalletDisconnected ==
    /\ Len(enqueued) < MaxEnqueues
    /\ DispatchSnackbar("snackbar/walletDisconnected")
    /\ enqueued' = Append(enqueued, [key |-> now, text |-> "Wallet disconnected"])
    /\ UNCHANGED dequeues

CloseSnackbar ==
    /\ DispatchSnackbar("snackbar/closeSnackbar")
    /\ UNCHANGED <<enqueued, dequeues>>

SetSnackPack ==
    /\ DispatchSnackbar("snackbar/setSnackPack")
    /\ dequeues' = IF setSnackPackThrows(snackbar) THEN dequeues ELSE dequeues + 1
    /\ UNCHANGED enqueued

Exited ==
    /\ DispatchSnackbar("snackbar/exited")
    /\ UNCHANGED <<enqueued, dequeues>>

\* -------------------------------------------------------- murals: dispatches
MuralLists == UNION { [1..n -> Murals] : n \in 0..MaxMurals }

DispatchMurals(type, payload, state) ==
    /\ murals' = state
    /\ last' = [Action(type, "", 0, NoCall) EXCEPT !.payload = payload]
    /\ UNCHANGED <<web3, snackbar, ethereum, calls, now, enqueued, dequeues>>

CreateMural ==
    /\ Len(murals.murals) < MaxMurals
    /\ \E payload \in Murals :
           DispatchMurals("murals/createMural", payload, createMural(murals, payload))

GetMurals ==
    \E payload \in MuralLists :
        DispatchMurals("murals/getMurals", payload, getMurals(murals, payload))

UpdatePlot ==
    \E payload \in { [mural |-> mural] : mural \in Murals } :
        DispatchMurals("murals/updatePlot", payload, updatePlot(murals, payload))

\* ----------------------------------------------------------- specifications
\* Each slice reducer reads and writes its own slice only, and the one action
\* that crosses slices is the walletConnected() the connectWallet thunk
\* dispatches, so the store is checked slice by slice.

\* the wallet session: the web3 slice, its thunks and what they dispatch
Next ==
    \/ ConnectWallet
    \/ ChangeAccount
    \/ ChangeNetwork
    \/ DisconnectWallet
    \/ ChainChanged
    \/ \E c \in 1..MaxCalls : ConnectWalletAccounts(c)
    \/ \E c \in 1..MaxCalls : ConnectWalletAccountData(c)
    \/ \E c \in 1..MaxCalls : ChangeAccountAccountData(c)
    \/ \E c \in 1..MaxCalls : ChangeNetworkAccounts(c)
    \/ \E c \in 1..MaxCalls : ChangeNetworkAccountData(c)
    \/ \E c \in 1..MaxCalls : AwaitThrows(c)
    \/ \E c \in 1..MaxCalls : Completes(c)

\* (the clock is read for the key of a notification only; it advances in
\* SpecSnackbar, where the keys are read)
Spec == Init /\ [][Next]_vars

\* the notification queue: the snackbar slice under the dispatches of the UI
SnackbarNext ==
    \/ Tick
    \/ WalletConnected
    \/ WalletDisconnected
    \/ CloseSnackbar
    \/ SetSnackPack
    \/ Exited

SpecSnackbar == Init /\ [][SnackbarNext]_vars

\* the mural registry: the murals slice under the dispatches of the UI
MuralsNext ==
    \/ CreateMural
    \/ GetMurals
    \/ UpdatePlot

SpecMurals == Init /\ [][MuralsNext]_vars

\* ------------------------------------------------------------------ claims
\* isConnected is optional in the slice state and absent at first; observers
\* read an absent flag as not connected
isConnected(state) == state.isConnected = Some(TRUE)

Applied(type, status) == last.type = type /\ last.status = status

ChangeOps == {"web3/changeAccount", "web3/changeNetwork"}

\* C1: right after a connectWallet call is fulfilled the session is connected,
\* has an address and is not loading, and that call has enqueued exactly one
\* notification, "Wallet connected".
C1_ConnectPostcondition ==
    Applied("web3/connectWallet", "fulfilled") =>
        /\ isConnected(web3)
        /\ web3.data.address # Null
        /\ web3.loading = FALSE
        /\ last.call.notified = 1
        /\ snackbar.message = "Wallet connected"
        /\ Len(snackbar.snackPack) = 1
        /\ enqueued # <<>>
        /\ enqueued[Len(enqueued)].text = "Wallet connected"

C1_Witness ==
    /\ Applied("web3/connectWallet", "fulfilled")
    /\ isConnected(web3)
    /\ web3.data.address = last.call.payload.address

\* C2 as claimed: in every reachable state, a connected session has an address.
C2_ConnectedHasAddress == isConnected(web3) => web3.data.address # Null

\* C3 as claimed: entries become active in the order they were enqueued; after
\* a dequeue the active key is the key of the oldest entry not yet dequeued
\* and the queue holds exactly the entries enqueued after it.
C3_Fifo ==
    (last.type = "snackbar/setSnackPack" /\ ~last.threw) =>
        /\ dequeues \in 1..Len(enqueued)
        /\ snackbar.key = Some(enqueued[dequeues].key)
        /\ snackbar.snackPack =
               [i \in 1..(Len(enqueued) - dequeues) |-> [key |-> enqueued[dequeues + i].key]]

\* C4: right after disconnectWallet the session data is the initial data and
\* isConnected is false, whatever the session was before.
C4_DisconnectPostcondition ==
    Applied("web3/disconnectWallet", "") =>
        /\ web3.data = web3InitialData
        /\ web3.isConnected = Some(FALSE)

\* a disconnect after a connect that was fulfilled: the first call is done
\* and left neither an error nor the loading flag behind
C4_Witness ==
    /\ Applied("web3/disconnectWallet", "")
    /\ Len(calls) > 0
    /\ calls[1] = DoneCall("web3/connectWallet")
    /\ web3.error = None
    /\ web3.loading = FALSE
    /\ snackbar.message = "Wallet connected"

\* C5 as claimed: right after disconnectWallet a "Wallet disconnected" entry is
\* in the notification queue.
C5_DisconnectNotifies ==
    Applied("web3/disconnectWallet", "") =>
        /\ snackbar.message = "Wallet disconnected"
        /\ snackbar.snackPack # <<>>

\* C5 as amended: disconnectWallet leaves the snackbar slice as it was; it
\* enqueues no notification.
C5_DisconnectLeavesSnackbar == [][DisconnectWallet => snackbar' = snackbar]_vars

C5_Witness ==
    /\ Applied("web3/disconnectWallet", "")
    /\ snackbar.message = "Wallet connected"
    /\ Len(snackbar.snackPack) = 1

\* C6: a connectWallet call made while no wallet provider is injected ends
\* rejected with error "Must install metamask", the session not connected and
\* not loading, and no notification enqueued.
C6_ConnectWithoutProvider ==
    (~ethereum.present /\ Applied("web3/connectWallet", "rejected")) =>
        /\ web3.error = Some("Must install metamask")
        /\ ~isConnected(web3)
        /\ web3.loading = FALSE
        /\ last.call.notified = 0
        /\ enqueued = <<>>
        /\ snackbar = snackbarInitialState

\* the call was dispatched from the initial state: nothing else was applied
C6_Witness ==
    /\ ~ethereum.present
    /\ Applied("web3/connectWallet", "rejected")
    /\ Len(calls) = 1
    /\ web3 = [web3InitialState EXCEPT !.error = Some("Must install metamask")]

\* C7 as claimed: a changeAccount or changeNetwork call in which the provider
\* or the profile lookup threw leaves the session error unset and the ens and
\* avatar fields null.
C7_ErrorsSwallowed ==
    (last.type \in ChangeOps /\ last.status = "rejected") =>
        /\ web3.error = None
        /\ web3.data.ens = Null
        /\ web3.data.avatar = Null

\* C7 as amended: such a call is rejected; the rejection leaves the session
\* data and isConnected as they were and, when the thrown value is truthy,
\* sets the session error to its message and loading to false (a falsy thrown
\* value changes nothing).
C7_ErrorsReject ==
    [][(last' # last /\ last'.type \in ChangeOps /\ last'.status = "rejected") =>
          /\ web3'.data = web3.data
          /\ web3'.isConnected = web3.isConnected
          /\ IF last'.call.err.truthy
             THEN /\ web3'.error = Some(last'.call.err.message)
                  /\ web3'.loading = FALSE
             ELSE web3' = web3]_vars

\* a rejected changeAccount that kept the profile resolved before it
C7_Witness ==
    /\ Applied("web3/changeAccount", "rejected")
    /\ last.call.err.truthy
    /\ web3.error = Some(last.call.err.message)
    /\ web3.data.ens # Null
    /\ web3.data.address # last.call.arg

C9_UpdatePlotReplacesAll ==
    [][last'.type = "murals/updatePlot" =>
          /\ murals'.murals = << last'.payload.mural >>
          /\ murals'.loading = murals.loading]_vars

\* updatePlot applied after getMurals has cleared the loading flag
C9_Witness ==
    /\ last.type = "murals/updatePlot"
    /\ murals.murals = << last.payload.mural >>
    /\ murals.loading = FALSE

\* C10 as claimed: right after a changeAccount(newAddress) call is fulfilled
\* data.address is newAddress, and ens and avatar are the profile of
\* newAddress when the chain is mainnet and null on every other chain.
C10_AccountChanged ==
    Applied("web3/changeAccount", "fulfilled") =>
        /\ web3.data.address = last.call.arg
        /\ IF last.call.chain = Mainnet /\ last.call.arg # Null
           THEN [address |-> last.call.arg, ens |-> web3.data.ens,
                 avatar |-> web3.data.avatar] \in getAccounts(last.call.arg)
           ELSE web3.data.ens = Null /\ web3.data.avatar = Null

\* C10 as amended: that holds when a wallet provider is injected; without one
\* the call is fulfilled with address, ens and avatar all null.  Either way
\* chainId and network are left as they were.
C10_AccountChangedWithProvider ==
    [][(last' # last /\ last'.type = "web3/changeAccount" /\ last'.status = "fulfilled") =>
          /\ web3'.data.chainId = web3.data.chainId
          /\ web3'.data.network = web3.data.network
          /\ IF ~ethereum.present
             THEN /\ web3'.data.address = Null
                  /\ web3'.data.ens = Null
                  /\ web3'.data.avatar = Null
             ELSE /\ web3'.data.address = last'.call.arg
                  /\ IF last'.call.chain = Mainnet /\ last'.call.arg # Null
                     THEN [address |-> last'.call.arg, ens |-> web3'.data.ens,
                           avatar |-> web3'.data.avatar] \in getAccounts(last'.call.arg)
                     ELSE web3'.data.ens = Null /\ web3'.data.avatar = Null]_vars

\* an account change on mainnet, in a session a connect had set up, that
\* resolved the new address's profile
C10_Witness ==
    /\ Applied("web3/changeAccount", "fulfilled")
    /\ ethereum.present
    /\ last.call.chain = Mainnet
    /\ web3.data.address = last.call.arg
    /\ web3.data.ens = ensOf(last.call.arg)
    /\ web3.data.ens # Null
    /\ web3.data.network # None

\* a wallet operation has been dispatched and its fulfilled or rejected action
\* has not been applied yet
InFlight == \E c \in 1..Len(calls) : calls[c].pc # "done"

\* C11 as claimed: in every reachable state with a wallet operation in flight,
\* loading is true, also when another operation has completed meanwhile.
C11_LoadingWhileInFlight == InFlight => web3.loading = TRUE

\* the session data connectWallet.fulfilled leaves for a payload
dataOf(payload) ==
    [address |-> payload.address, ens |-> payload.ens, avatar |-> payload.avatar,
     chainId |-> None, network |-> Some(payload.network), router |-> Some(payload.router)]

\* C12: right after a connectWallet call is fulfilled the session data is that
\* call's payload, whatever other connectWallet calls were dispatched or
\* fulfilled before it: of two calls that both fulfil, the one that resolved
\* last decides the data, not the one that was dispatched last.
C12_LastResolvedWins ==
    Applied("web3/connectWallet", "fulfilled") => web3.data = dataOf(last.call.payload)

\* two connectWallet calls were in flight together, both have fulfilled (each
\* enqueued its notification), and the one dispatched first resolved last
C12_Witness ==
    /\ Applied("web3/connectWallet", "fulfilled")
    /\ last.id = 1
    /\ Len(calls) = 2
    /\ calls[2] = DoneCall("web3/connectWallet")
    /\ Len(enqueued) = 2
    /\ web3.data.address = last.call.payload.address

\* C13 as claimed: right after disconnectWallet, whatever the session was, the
\* state is the Disconnected one: default data, not connected, not loading and
\* without an error.
C13_DisconnectYieldsInitial ==
    Applied("web3/disconnectWallet", "") =>
        /\ web3.data = web3InitialData
        /\ ~isConnected(web3)
        /\ web3.loading = FALSE
        /\ web3.error = None

\* C14 as claimed: an enqueue appends one entry, with the current time as its
\* key, to the tail of the queue and keeps the entries already queued.
C14_EnqueueAppends ==
    [][enqueued' # enqueued =>
          snackbar'.snackPack = Append(snackbar.snackPack, [key |-> now])]_vars

\* a dispatch of the UI to the snackbar slice (every step but a clock tick)
DispatchedSnackbar(type) == now' = now /\ last'.type = type

\* C15: setSnackPack on a non-empty queue removes the head entry, makes its
\* key the active key and sets open, and changes nothing else; closeSnackbar
\* changes only open, to false; exited changes only the active key, to none.
C15_DequeueDismissClear ==
    [][/\ (DispatchedSnackbar("snackbar/setSnackPack") /\ snackbar.snackPack # <<>>) =>
              snackbar' = [snackbar EXCEPT !.key = Some(Head(snackbar.snackPack).key),
                                           !.snackPack = Tail(snackbar.snackPack),
                                           !.open = TRUE]
       /\ DispatchedSnackbar("snackbar/closeSnackbar") =>
              snackbar' = [snackbar EXCEPT !.open = FALSE]
       /\ DispatchedSnackbar("snackbar/exited") =>
              snackbar' = [snackbar EXCEPT !.key = None]]_vars

\* a dismiss while an entry is active and another is queued: both are kept
C15_Witness ==
    /\ last.type = "snackbar/closeSnackbar"
    /\ dequeues > 0
    /\ Len(enqueued) = 2
    /\ snackbar.open = FALSE
    /\ snackbar.key = Some(enqueued[1].key)
    /\ snackbar.snackPack = << [key |-> enqueued[2].key] >>

\* C16 as claimed: while a notification is active (active key set, open), the
\* message shown is the text enqueued with an entry whose key is the active key.
C16_ActiveTextMatchesKey ==
    (snackbar.key # None /\ snackbar.open) =>
        \E i \in 1..Len(enqueued) :
            /\ enqueued[i].key = snackbar.key[1]
            /\ enqueued[i].text = snackbar.message

\* C17 as claimed: whenever no wallet operation is in flight, loading is false.
C17_IdleNotLoading == ~InFlight => web3.loading = FALSE

\* C18 as claimed, for a completion that is the next action the store applies
\* after disconnectWallet: a call that was suspended at an await when the
\* disconnect was applied (so it was dispatched before it) leaves the session
\* not connected and without an address when it completes.
C18_StaysDisconnected ==
    [][(/\ Applied("web3/disconnectWallet", "")
        /\ last'.status \in {"fulfilled", "rejected"}
        /\ calls[last'.id].pc \in {"requestAccounts", "getAccounts"}) =>
          /\ ~isConnected(web3')
          /\ web3'.data.address = Null]_vars

\* C19: setSnackPack on an empty queue throws and leaves the snackbar slice as
\* it was, so whenever open is true an entry has been dequeued.
C19_EmptyDequeueFails ==
    /\ [](snackbar.open => dequeues > 0)
    /\ [][(DispatchedSnackbar("snackbar/setSnackPack") /\ snackbar.snackPack = <<>>) =>
              (snackbar' = snackbar /\ last'.threw)]_vars

\* setSnackPack was dispatched before anything was enqueued
C19_Witness ==
    /\ last.type = "snackbar/setSnackPack"
    /\ last.threw
    /\ enqueued = <<>>
    /\ snackbar = snackbarInitialState

====
